---- MODULE Spec2Model ----
(***************************************************************************)
(* Cancellation-record analysis of the pre-sale market notebooks.          *)
(*                                                                         *)
(* Notebook 1 (1_basic_data_exploration) loads the per-unit transaction    *)
(* table, counts null / non-null cells of the column '解約情形', scans the   *)
(* first 20 non-null cells for the length of the token that follows the    *)
(* marker '全部解約', and stores the cancellation rate in basic_stats.       *)
(* It also builds the sets of project IDs of the community and the         *)
(* transaction table and reports their match rate.                         *)
(*                                                                         *)
(* Notebook 2 (2_cancellation_data_analysis) loads the two tables and the  *)
(* summary notebook 1 saved, inside nested try / except blocks.            *)
(*                                                                         *)
(* A text is a sequence of characters, each character a string.  The four  *)
(* characters of the marker are written "quan","bu","jie","yue".           *)
(***************************************************************************)
EXTENDS Integers, Sequences, FiniteSets, TLC

\* ------------------------------------------------------------------ bounds
\* Longest tail of varied records appended to a run of filler records.
MaxTail == 2
\* Most sub-records (';'-separated) of one generated cancellation text.
MaxSub == 2

\* Tables of null and non-null cells: every total up to SmallTotal, and
\* LargeTotal, with every number of null cells.
SmallTotal == 3
LargeTotal == 160

\* Most cells of a generated ID column.
MaxKeys == 2

\* ---------------------------------------------------------- program values
\* cancelled_data.head(20): the scan reads at most 20 non-null cells.
HeadLimit == 20

\* The ROC calendar's offset from the Gregorian year.
RocOffset == 1911

\* pandas' missing value (NaN / None) of an object column.
NULL == <<"NaN">>

\* The literal '全部解約'.
Marker == <<"quan", "bu", "jie", "yue">>

Semicolon == ";"

Whitespace == {" "}

DigitChars == {"0", "1", "2", "3", "4", "5", "6", "7", "8", "9"}

\* ------------------------------------------------------- string operations
\* s[i:].startswith(sub)
StartsWithAt(s, i, sub) ==
    /\ i + Len(sub) - 1 <= Len(s)
    /\ \A k \in 1..Len(sub) : s[i + k - 1] = sub[k]

\* sub in s
Contains(s, sub) == \E i \in 1..Len(s) : StartsWithAt(s, i, sub)

RECURSIVE ReplaceFrom(_, _, _)
\* s[i:].replace(sub, ''): left to right, occurrences do not overlap.
ReplaceFrom(s, sub, i) ==
    IF i > Len(s) THEN <<>>
    ELSE IF StartsWithAt(s, i, sub) THEN ReplaceFrom(s, sub, i + Len(sub))
    ELSE <<s[i]>> \o ReplaceFrom(s, sub, i + 1)

\* s.replace(sub, '')
Remove(s, sub) == ReplaceFrom(s, sub, 1)

RECURSIVE LStrip(_)
LStrip(s) ==
    IF s # <<>> /\ Head(s) \in Whitespace THEN LStrip(Tail(s)) ELSE s

RECURSIVE RStrip(_)
RStrip(s) ==
    IF s # <<>> /\ s[Len(s)] \in Whitespace
    THEN RStrip(SubSeq(s, 1, Len(s) - 1)) ELSE s

\* The mutant of Strip: nothing is stripped.
NoStrip(s) == s

\* s.strip()
Strip(s) == RStrip(LStrip(s))

\* The mutant of Split: the text is never split.
SplitNothing(s, sep) == <<s>>

RECURSIVE Split(_, _)
\* s.split(sep) for a one-character sep: always at least one component.
Split(s, sep) ==
    IF \E i \in 1..Len(s) : s[i] = sep
    THEN LET i == CHOOSE k \in 1..Len(s) :
                      s[k] = sep /\ \A j \in 1..(k - 1) : s[j] # sep
         IN  <<SubSeq(s, 1, i - 1)>> \o Split(SubSeq(s, i + 1, Len(s)), sep)
    ELSE <<s>>

\* ------------------------------------------------------------ pandas layer
\* The mutant of ReadCsvCell: keep_default_na=False, '' stays a string.
ReadCsvCellKeepEmpty(cell) == cell

\* pd.read_csv with its default na_values: an empty field is read as NaN,
\* every other field of this column is kept as the string it is.
ReadCsvCell(cell) == IF cell = <<>> THEN NULL ELSE cell

ReadCsv(file) == [i \in 1..Len(file) |-> ReadCsvCell(file[i])]

\* Series.isnull() on one cell.
isnull(v) == v = NULL

\* The mutant of notna: a cell counts only when it carries the marker.
NotNaWithMarker(v) == v # NULL /\ Contains(v, Marker)

\* Series.notna() on one cell.
notna(v) == v # NULL

\* transaction_df['解約情形'].isnull().sum(): the number of True cells.
SumIsNull(col) == Cardinality({i \in DOMAIN col : isnull(col[i])})

\* transaction_df['解約情形'].notna().sum(): the number of True cells.
SumNotNa(col) == Cardinality({i \in DOMAIN col : notna(col[i])})

\* transaction_df[transaction_df['解約情形'].notna()]['解約情形']
NotNaRows(col) == SelectSeq(col, notna)

\* Series.head(n)
SeriesHead(col, n) == SubSeq(col, 1, IF Len(col) < n THEN Len(col) ELSE n)

\* ------------------------------------------------------------- arithmetic
RECURSIVE Gcd(_, _)
Gcd(a, b) == IF b = 0 THEN a ELSE Gcd(b, a % b)

\* A float as the exact rational it stands for, in lowest terms, or nan/inf.
Finite(n, d) ==
    LET g == Gcd(n, d) IN [kind |-> "finite", num |-> n \div g, den |-> d \div g]

FloatNaN == [kind |-> "nan", num |-> 0, den |-> 1]

FloatInf == [kind |-> "inf", num |-> 1, den |-> 1]

\* The mutant of Percent: floor division, count // total * 100.
PercentFloorDiv(count, total) ==
    IF total # 0 THEN Finite((count \div total) * 100, 1)
    ELSE IF count = 0 THEN FloatNaN ELSE FloatInf

\* numpy.int64 / int * 100: a zero divisor gives nan (0/0) or inf with a
\* RuntimeWarning, which warnings.filterwarnings('ignore') silences.
Percent(count, total) ==
    IF total # 0 THEN Finite(count * 100, total)
    ELSE IF count = 0 THEN FloatNaN ELSE FloatInf

\* ----------------------------------------------------------- the match rate
\* set(df[column].dropna())
DropNaSet(col) == {col[i] : i \in {n \in DOMAIN col : notna(col[n])}}

\* max(a, b)
Max(a, b) == IF a >= b THEN a ELSE b

\* What a division of Python ints by zero raises.
ZeroDivisionError == [kind |-> "ZeroDivisionError", num |-> 0, den |-> 0]

\* len(community_ids & transaction_ids)
\*     / max(len(community_ids), len(transaction_ids)) * 100
\* on Python ints: a zero divisor raises.
MatchRate(community_ids, transaction_ids) ==
    LET matched == Cardinality(community_ids \cap transaction_ids)
        larger == Max(Cardinality(community_ids), Cardinality(transaction_ids))
    IN  IF larger = 0 THEN ZeroDivisionError ELSE Finite(matched * 100, larger)

\* ----------------------------------------------- the printed percentages
\* The percentages are IEEE 754 doubles and are printed with two decimals
\* (f"{x:.2f}").  A significand is wider than the model's integers: it is
\* written as its bits, most significant first.
MantissaBits == 53

RECURSIVE BitsToNat(_)
BitsToNat(bits) ==
    IF bits = <<>> THEN 0
    ELSE 2 * BitsToNat(SubSeq(bits, 1, Len(bits) - 1)) + bits[Len(bits)]

RECURSIVE NatToBits(_)
NatToBits(n) == IF n = 0 THEN <<>> ELSE Append(NatToBits(n \div 2), n % 2)

\* n in binary, in exactly width bits.
FixedBits(n, width) == [i \in 1..width |-> (n \div 2^(width - i)) % 2]

\* Bits are worked on in chunks that fit the model's integers.
ChunkBits == 8

RECURSIVE TimesCarry(_, _, _)
\* bits * c + carry, exactly: as many low bits as bits has, and what is
\* carried out of them.  The halves are multiplied one after the other.
TimesCarry(bits, c, carry) ==
    IF Len(bits) <= ChunkBits
    THEN LET v == BitsToNat(bits) * c + carry
             w == 2^Len(bits)
         IN  [bits |-> FixedBits(v % w, Len(bits)), carry |-> v \div w]
    ELSE LET h == Len(bits) \div 2
             low == TimesCarry(SubSeq(bits, h + 1, Len(bits)), c, carry)
             high == TimesCarry(SubSeq(bits, 1, h), c, low.carry)
         IN  [bits |-> high.bits \o low.bits, carry |-> high.carry]

\* bits * c, exactly.
TimesSmall(bits, c) ==
    LET p == TimesCarry(bits, c, 0) IN NatToBits(p.carry) \o p.bits

\* bits + 1
PlusOne(bits) ==
    LET p == TimesCarry(bits, 1, 1) IN NatToBits(p.carry) \o p.bits

AnySet(bits) == \E i \in DOMAIN bits : bits[i] = 1

\* The double nearest to bits * 2^exp (plus something smaller than the last
\* bit when sticky), ties to even.  bits has at least MantissaBits bits and
\* starts with 1.
RoundToDouble(bits, exp, sticky) ==
    LET extra == Len(bits) - MantissaBits
        kept == SubSeq(bits, 1, MantissaBits)
        half == extra >= 1 /\ bits[MantissaBits + 1] = 1
        below == sticky \/ AnySet(SubSeq(bits, MantissaBits + 2, Len(bits)))
        up == half /\ (below \/ kept[MantissaBits] = 1)
        raised == IF up THEN PlusOne(kept) ELSE kept
    IN  IF Len(raised) > MantissaBits
        THEN [kind |-> "finite", bits |-> SubSeq(raised, 1, MantissaBits),
              exp |-> exp + extra + 1]
        ELSE [kind |-> "finite", bits |-> raised, exp |-> exp + extra]

RECURSIVE LongDivision(_, _, _)
\* The next k bits of r / t after the binary point, and the remainder; r < t.
\* The two halves of the bits are produced one after the other.
LongDivision(r, t, k) ==
    IF k <= ChunkBits
    THEN [bits |-> FixedBits((r * 2^k) \div t, k), rem |-> (r * 2^k) % t]
    ELSE LET first == LongDivision(r, t, k \div 2)
             rest == LongDivision(first.rem, t, k - k \div 2)
         IN  [bits |-> first.bits \o rest.bits, rem |-> rest.rem]

RECURSIVE LeadingZeros(_, _)
\* The zero bits of r / t between the binary point and its first 1; 0 < r < t.
LeadingZeros(r, t) == IF 2 * r >= t THEN 0 ELSE 1 + LeadingZeros(2 * r, t)

DoubleZero == [kind |-> "zero", bits |-> <<>>, exp |-> 0]

DoubleNaN == [kind |-> "nan", bits |-> <<>>, exp |-> 0]

DoubleInf == [kind |-> "inf", bits |-> <<>>, exp |-> 0]

\* count / total in doubles, 0 <= count <= total: a zero divisor gives nan
\* or inf (numpy, warning silenced).
DoubleDivide(count, total) ==
    IF total = 0 THEN (IF count = 0 THEN DoubleNaN ELSE DoubleInf)
    ELSE IF count = 0 THEN DoubleZero
    ELSE IF count = total
    THEN [kind |-> "finite",
          bits |-> <<1>> \o [i \in 1..(MantissaBits - 1) |-> 0],
          exp |-> 1 - MantissaBits]
    ELSE LET z == LeadingZeros(count, total)
             q == LongDivision(count * 2^z, total, MantissaBits + 1)
         IN  RoundToDouble(q.bits, 0 - (z + MantissaBits + 1), q.rem # 0)

\* x * c in doubles, c a small whole number.
DoubleTimes(x, c) ==
    IF x.kind = "finite" THEN RoundToDouble(TimesSmall(x.bits, c), x.exp, FALSE)
    ELSE x

\* The mutant of DoublePercent: floor division, count // total * 100.
DoublePercentFloorDiv(count, total) ==
    IF total = 0 THEN DoubleDivide(count, total)
    ELSE DoubleTimes(DoubleDivide((count \div total) * total, total), 100)

\* count / total * 100
DoublePercent(count, total) == DoubleTimes(DoubleDivide(count, total), 100)

\* f"{x:.2f}" of a double 0 <= x < 2^53: the exact value rounded to
\* hundredths, ties to even; the text is given by its number of hundredths.
FormatTwoDecimals(x) ==
    IF x.kind = "zero" THEN [text |-> "finite", hundredths |-> 0]
    ELSE IF x.kind # "finite" THEN [text |-> x.kind, hundredths |-> 0]
    ELSE LET q == TimesSmall(x.bits, 100)
             whole == Len(q) + x.exp
         IN  IF whole < 0 THEN [text |-> "finite", hundredths |-> 0]
             ELSE LET int == BitsToNat(SubSeq(q, 1, whole))
                      half == q[whole + 1] = 1
                      below == AnySet(SubSeq(q, whole + 2, Len(q)))
                      up == half /\ (below \/ int % 2 = 1)
                  IN  [text |-> "finite",
                       hundredths |-> int + (IF up THEN 1 ELSE 0)]


\* ------------------------------------------------- the pattern scan's body
\* patterns = {}
EmptyDict == [k \in {} |-> 0]

\* patterns.get(pattern, 0)
DictGet(patterns, key) == IF key \in DOMAIN patterns THEN patterns[key] ELSE 0

\* patterns[pattern] = value
DictSet(patterns, key, value) ==
    [k \in DOMAIN patterns \cup {key} |-> IF k = key THEN value ELSE patterns[k]]

\* date_part = str(cancel_str).replace('全部解約', '').strip()
DatePart(cancel_str) == Strip(Remove(cancel_str, Marker))

\* date_part.split(';')[0]
DateToken(date_part) == Split(date_part, Semicolon)[1]

\* The mutant of DateLen: the length of all that is left of the text.
DateLenWhole(date_part) == Len(date_part)

\* date_len = len(date_part.split(';')[0]); the key f"{date_len}位數字" is
\* one-to-one with date_len, which stands for it.
DateLen(date_part) == Len(DateToken(date_part))

\* The mutant of ScanBody: the key depends on what the dict already holds.
ScanBodyStateful(patterns, cancel_str) ==
    IF Contains(cancel_str, Marker) /\ DatePart(cancel_str) # <<>>
    THEN LET key == DateLen(DatePart(cancel_str)) + Cardinality(DOMAIN patterns)
         IN  DictSet(patterns, key, DictGet(patterns, key) + 1)
    ELSE patterns

\* One iteration of `for cancel_str in cancelled_data.head(20)`.
ScanBody(patterns, cancel_str) ==
    IF Contains(cancel_str, Marker)
    THEN LET date_part == DatePart(cancel_str)
         IN  IF date_part # <<>>
             THEN LET date_len == DateLen(date_part)
                  IN  DictSet(patterns, date_len, DictGet(patterns, date_len) + 1)
             ELSE patterns
    ELSE patterns

RECURSIVE ScanFold(_, _)
\* The whole loop over a series, from a given dict.
ScanFold(patterns, series) ==
    IF series = <<>> THEN patterns
    ELSE ScanFold(ScanBody(patterns, Head(series)), Tail(series))

\* The mutant of ScanHead: every non-null cell is scanned.
ScanHeadAll(cancelled_data) == cancelled_data

\* The mutant of ScanHead: head(10), as the sample cell before it reads.
ScanHeadTen(cancelled_data) == SeriesHead(cancelled_data, 10)

\* cancelled_data.head(20)
ScanHead(cancelled_data) == SeriesHead(cancelled_data, HeadLimit)

\* ------------------------------------------- the cancellation record parser
DigitSeq == <<"0", "1", "2", "3", "4", "5", "6", "7", "8", "9">>

DigitVal(c) == CHOOSE n \in 0..9 : DigitSeq[n + 1] = c

NoDate == [present |-> FALSE, year |-> 0, month |-> 0, day |-> 0]

IsLeap(year) == (year % 4 = 0 /\ year % 100 # 0) \/ year % 400 = 0

DaysInMonth(year, month) ==
    IF month = 2 THEN (IF IsLeap(year) THEN 29 ELSE 28)
    ELSE IF month \in {4, 6, 9, 11} THEN 30 ELSE 31

\* The named ROC-to-Gregorian step: a token of exactly 7 digits YYYMMDD that
\* names a calendar day becomes the date (YYY + 1911, MM, DD); any other
\* token leaves the date absent.
RocToGregorian(token) ==
    IF Len(token) = 7 /\ \A i \in 1..7 : token[i] \in DigitChars
    THEN LET v(i) == DigitVal(token[i])
             year == 100 * v(1) + 10 * v(2) + v(3) + RocOffset
             month == 10 * v(4) + v(5)
             day == 10 * v(6) + v(7)
         IN  IF month \in 1..12 /\ day \in 1..DaysInMonth(year, month)
             THEN [present |-> TRUE, year |-> year, month |-> month, day |-> day]
             ELSE NoDate
    ELSE NoDate

\* Steps 2, 3 and 5: the sub-records that carry the marker.
CancellationCount(text) ==
    IF isnull(text) \/ text = <<>> THEN 0
    ELSE LET subs == Split(text, Semicolon)
         IN  Cardinality({i \in 1..Len(subs) : Contains(subs[i], Marker)})

\* Step 4: the date of the first token of the marker-stripped text.
CancelledDate(text) ==
    IF isnull(text) \/ text = <<>> THEN NoDate
    ELSE IF Contains(text, Marker) THEN RocToGregorian(DateToken(DatePart(text)))
    ELSE NoDate

\* The mutant of IsCancelled: the marker is required, at the start of the text.
IsCancelledStartsWith(text) == notna(text) /\ StartsWithAt(text, 1, Marker)

\* The notebook's classification: a non-null cell is a cancelled transaction.
IsCancelled(text) == notna(text)

\* One CancellationEvent.
parse_cancellation(text) ==
    [raw_text |-> text,
     is_cancelled |-> IsCancelled(text),
     cancelled_date |-> CancelledDate(text),
     cancellation_count |-> CancellationCount(text)]

\* ------------------------------------------------------------- the inputs
\* A cell of the column '解約情形' of the csv file is written from a
\* descriptor: a first sub-record (marker or not, a token, a blank before or
\* after the token) and further ';'-separated sub-records.
RocYears == {89, 112, 113}

Months == {2, 3, 13}

Days == {15, 29, 30}

DigitChar(n) == DigitSeq[n + 1]

\* YYYMMDD
FormatRoc(y, m, d) ==
    <<DigitChar(y \div 100), DigitChar((y \div 10) % 10), DigitChar(y % 10),
      DigitChar(m \div 10), DigitChar(m % 10),
      DigitChar(d \div 10), DigitChar(d % 10)>>

DateTokens == {FormatRoc(y, m, d) : y \in RocYears, m \in Months, d \in Days}

OtherTokens ==
    {<<>>, <<"A", "B", "C">>, <<"1", "1", "2", "0", "3">>,
     <<"1", "1", "2", "0", "3", "1", "A">>}

Pads == {"none", "mid", "trail"}

\* A blank goes with a marker or a token, never alone.
SubDescs ==
    {sub \in [marked : BOOLEAN, pad : Pads, token : DateTokens \cup OtherTokens] :
        sub.pad = "none" \/ sub.marked \/ sub.token # <<>>}

MoreSubDescs ==
    {[marked |-> TRUE, pad |-> "none", token |-> FormatRoc(113, 1, 1)],
     [marked |-> TRUE, pad |-> "none", token |-> <<"A", "B", "C">>],
     [marked |-> FALSE, pad |-> "none", token |-> <<"A", "B", "C">>],
     [marked |-> FALSE, pad |-> "none", token |-> <<>>]}

SubText(sub) ==
    (IF sub.marked THEN Marker ELSE <<>>)
      \o (IF sub.pad = "mid" THEN <<" ">> ELSE <<>>)
      \o sub.token
      \o (IF sub.pad = "trail" THEN <<" ">> ELSE <<>>)

RECURSIVE JoinSubs(_)
\* ';'.join(sub-records)
JoinSubs(subs) ==
    IF Len(subs) = 1 THEN SubText(subs[1])
    ELSE SubText(subs[1]) \o <<Semicolon>> \o JoinSubs(Tail(subs))

SeqsUpTo(S, n) == UNION {[1..k -> S] : k \in 0..n}

\* Every cell text: one first sub-record and up to MaxSub - 1 more.
CellDescs ==
    {<<first>> \o more : first \in SubDescs, more \in SeqsUpTo(MoreSubDescs, MaxSub - 1)}

EmptyCell == <<[marked |-> FALSE, pad |-> "none", token |-> <<>>]>>

Example(marked, token) == <<[marked |-> marked, pad |-> "none", token |-> token]>>

\* The cells the longer tables are made of.
TableDescs ==
    {EmptyCell,
     Example(TRUE, FormatRoc(112, 3, 15)),
     Example(TRUE, <<"A", "B", "C">>),
     Example(FALSE, <<"A", "B", "C">>),
     Example(TRUE, <<>>),
     Example(TRUE, FormatRoc(112, 3, 15)) \o Example(TRUE, FormatRoc(113, 1, 1)),
     Example(TRUE, FormatRoc(112, 3, 15)) \o Example(FALSE, <<"A", "B", "C">>)}

Filler == Example(TRUE, FormatRoc(112, 3, 15))

FillCounts == {0, 1, HeadLimit - 1, HeadLimit}

\* The tables: one cell of any text, or a run of filler cells (none, one, or
\* as many as the scan's head limit, or one less) followed by up to MaxTail
\* cells.
Tables ==
    {<<d>> : d \in CellDescs}
      \cup {[i \in 1..n |-> Filler] \o tail :
               n \in FillCounts, tail \in SeqsUpTo(TableDescs, MaxTail)}

\* A cell of an ID column ('編號', '備查編號'): empty, or one of two projects.
IdCells == {<<>>, <<"A">>, <<"B">>}

\* The ID columns of the two files.
IdColumns == SeqsUpTo(IdCells, MaxKeys)

\* The tables the statistics are counted over: nulls empty cells followed by
\* dated cancellations, total cells in all.
StatTable(nulls, total) ==
    [i \in 1..total |-> IF i <= nulls THEN EmptyCell ELSE Filler]

StatTotals == (0..SmallTotal) \cup {LargeTotal}

StatTables ==
    UNION {{StatTable(nulls, total) : nulls \in 0..total} : total \in StatTotals}

\* Most data rows of a generated csv file.
MaxRows == 2

\* community_path, transaction_path, stats_path
Paths == {"community_path", "transaction_path", "stats_path"}

\* No file at the path.
NoFile == [exists |-> FALSE, lines |-> <<>>]

\* A file of no bytes.
EmptyFile == [exists |-> TRUE, lines |-> <<>>]

\* community_11006_11406.csv: a header line and n projects.
CommunityCsv(n) ==
    [exists |-> TRUE,
     lines |-> <<<<"bianhao", "xianshi">>>> \o [i \in 1..n |-> <<"project", "city">>]]

\* transaction_11006_11406.csv: a header line and n transactions.
TransactionCsv(n) ==
    [exists |-> TRUE,
     lines |-> <<<<"beicha_bianhao", "jieyue_qingxing", "jiaoyi_nianyue">>>>
                 \o [i \in 1..n |-> <<"project", "", "11203">>]]

\* 01_basic_analysis_summary.csv: a header line and the one row notebook 1 saves.
StatsCsv ==
    [exists |-> TRUE,
     lines |-> <<<<"analysis_date", "match_rate", "cancellation_rate">>,
                 <<"2025", "90", "1">>>>]

CommunityFiles == {NoFile, EmptyFile} \cup {CommunityCsv(n) : n \in 0..MaxRows}

TransactionFiles == {NoFile, EmptyFile} \cup {TransactionCsv(n) : n \in 0..MaxRows}

StatsFiles == {NoFile, EmptyFile, StatsCsv}

\* What each path may hold when the load cell runs.
FileSystems ==
    {[p \in Paths |->
         CASE p = "community_path" -> c
           [] p = "transaction_path" -> t
           [] p = "stats_path" -> b] :
        c \in CommunityFiles, t \in TransactionFiles, b \in StatsFiles}

\* A name that no statement has bound yet.
Unbound == [columns |-> <<"unbound">>, rows |-> <<>>]

\* None
None == [columns |-> <<"None">>, rows |-> <<>>]

\* The DataFrame of a csv text: the header names the columns.
DataFrame(lines) == [columns |-> Head(lines), rows |-> Tail(lines)]

\* df.shape
Shape(df) == <<Len(df.rows), Len(df.columns)>>

\* pd.read_csv(path): a missing file raises FileNotFoundError, a file with
\* no header line raises pandas.errors.EmptyDataError.
ReadCsvFile(file) ==
    IF ~file.exists THEN [raised |-> "FileNotFoundError", frame |-> Unbound]
    ELSE IF file.lines = <<>> THEN [raised |-> "EmptyDataError", frame |-> Unbound]
    ELSE [raised |-> "none", frame |-> DataFrame(file.lines)]

\* The classes an exception is an instance of.
Bases(exc) ==
    CASE exc = "FileNotFoundError" -> {"FileNotFoundError", "OSError", "Exception"}
      [] exc = "EmptyDataError" -> {"EmptyDataError", "ValueError", "Exception"}
      [] OTHER -> {}

\* The mutant of Catches: a clause catches its own class only.
CatchesExactClass(clause, exc) == clause = exc

\* `except clause:` catches the instances of the class and of its subclasses.
Catches(clause, exc) == clause \in Bases(exc)

\* Where control goes when a statement of the outer try block raises.
OuterExcept(exc) ==
    IF Catches("FileNotFoundError", exc) THEN "except_FileNotFoundError"
    ELSE IF Catches("Exception", exc) THEN "except_Exception"
    ELSE "raised"

\* Where control goes when the statement of the inner try block raises.
InnerExcept(exc) ==
    IF Catches("FileNotFoundError", exc) THEN "inner_except_FileNotFoundError"
    ELSE OuterExcept(exc)

\* --------------------------------------------------------------- the state
VARIABLES
    gen,                    \* the descriptors the csv column was written from
    csv,                    \* the column '解約情形' of the csv file
    pc,                     \* the cell the notebook run has reached
    transaction_df,         \* transaction_df['解約情形']
    total_transactions,
    normal_transactions,
    cancelled_transactions,
    normal_pct,             \* normal_transactions/total_transactions*100
    cancelled_pct,          \* cancelled_transactions/total_transactions*100
    normal_printed,         \* the normal percentage as printed, two decimals
    cancelled_printed,      \* the cancelled percentage as printed, two decimals
    cancelled_data,
    scan_pos,               \* cells of cancelled_data.head(20) already read
    patterns,
    scan_log,               \* per iteration: the cell read, the keys it changed
    basic_stats,
    events,                 \* the CancellationEvents parsed so far
    community_csv,          \* the column '編號' of the community csv file
    key_csv,                \* the column '備查編號' of the transaction csv file
    community_df,           \* community_df['編號']
    transaction_df_key,     \* transaction_df['備查編號']
    community_ids,
    transaction_ids,
    errors,                 \* the cells that raised, with the exception
    files,                  \* notebook 2: the file, if any, at each path
    nb2_pc,                 \* notebook 2: the statement of the load cell reached
    nb2_transaction_df,     \* notebook 2: transaction_df
    nb2_community_df,       \* notebook 2: community_df
    nb2_basic_stats,        \* notebook 2: basic_stats
    nb2_exc,                \* notebook 2: the exception in flight, if any
    nb2_out                 \* notebook 2: the lines the load cell has printed

vars ==
    <<gen, csv, pc, transaction_df, total_transactions, normal_transactions,
      cancelled_transactions, normal_pct, cancelled_pct, normal_printed,
      cancelled_printed, cancelled_data,
      scan_pos, patterns, scan_log, basic_stats, events,
      community_csv, key_csv, community_df, transaction_df_key,
      community_ids, transaction_ids, errors,
      files, nb2_pc, nb2_transaction_df, nb2_community_df, nb2_basic_stats,
      nb2_exc, nb2_out>>

nb1_vars ==
    <<gen, csv, pc, transaction_df, total_transactions, normal_transactions,
      cancelled_transactions, normal_pct, cancelled_pct, normal_printed,
      cancelled_printed, cancelled_data,
      scan_pos, patterns, scan_log, basic_stats, events,
      community_csv, key_csv, community_df, transaction_df_key,
      community_ids, transaction_ids, errors>>

id_vars ==
    <<community_csv, key_csv, community_df, transaction_df_key,
      community_ids, transaction_ids, errors>>

nb2_vars ==
    <<files, nb2_pc, nb2_transaction_df, nb2_community_df, nb2_basic_stats,
      nb2_exc, nb2_out>>

stats_vars ==
    <<total_transactions, normal_transactions, cancelled_transactions,
      normal_pct, cancelled_pct, normal_printed, cancelled_printed>>

scan_vars == <<cancelled_data, scan_pos, patterns, scan_log>>

\* Names not yet bound hold a placeholder; pc says which are bound.
Nb1Names ==
    /\ transaction_df = <<>>
    /\ total_transactions = 0
    /\ normal_transactions = 0
    /\ cancelled_transactions = 0
    /\ normal_pct = FloatNaN
    /\ cancelled_pct = FloatNaN
    /\ normal_printed = FormatTwoDecimals(DoubleNaN)
    /\ cancelled_printed = FormatTwoDecimals(DoubleNaN)
    /\ cancelled_data = <<>>
    /\ scan_pos = 0
    /\ patterns = EmptyDict
    /\ scan_log = <<>>
    /\ basic_stats =
           [transaction_records |-> 0, match_rate |-> FloatNaN,
            cancellation_rate |-> FloatNaN]
    /\ events = <<>>
    /\ community_df = <<>>
    /\ transaction_df_key = <<>>
    /\ community_ids = {}
    /\ transaction_ids = {}
    /\ errors = <<>>

Nb2Names ==
    /\ nb2_transaction_df = Unbound
    /\ nb2_community_df = Unbound
    /\ nb2_basic_stats = Unbound
    /\ nb2_exc = "none"
    /\ nb2_out = <<>>

\* Notebook 2 is not run while notebook 1 runs.
Nb2NotRun ==
    /\ files = [p \in Paths |-> NoFile]
    /\ nb2_pc = "not_run"
    /\ Nb2Names

\* Notebook 1 before its load cell: any table of cancellation texts, every
\* transaction of project A, the community file listing projects A and B.
Init ==
    /\ gen \in Tables
    /\ csv = [i \in 1..Len(gen) |-> JoinSubs(gen[i])]
    /\ community_csv = <<<<"A">>, <<"B">>>>
    /\ key_csv = [i \in 1..Len(gen) |-> <<"A">>]
    /\ pc = "load"
    /\ Nb1Names
    /\ Nb2NotRun

\* transaction_df = pd.read_csv(transaction_input_path, encoding='utf-8')
LoadData ==
    /\ pc = "load"
    /\ community_df' = ReadCsv(community_csv)
    /\ transaction_df' = ReadCsv(csv)
    /\ transaction_df_key' = ReadCsv(key_csv)
    /\ pc' = "match"
    /\ UNCHANGED <<nb2_vars, gen, csv, stats_vars, scan_vars, basic_stats, events,
                   community_csv, key_csv, community_ids, transaction_ids, errors>>

\* Cell 009ba868: the two ID sets and the printed match rate.  The division
\* is the last statement: when it raises, the sets are already bound.
MatchRateCell ==
    /\ pc = "match"
    /\ community_ids' = DropNaSet(community_df)
    /\ transaction_ids' = DropNaSet(transaction_df_key)
    /\ errors' = IF MatchRate(community_ids', transaction_ids') = ZeroDivisionError
                  THEN Append(errors, [cell |-> "009ba868", exc |-> "ZeroDivisionError"])
                  ELSE errors
    /\ pc' = "stats"
    /\ UNCHANGED <<nb2_vars, gen, csv, transaction_df, stats_vars, scan_vars,
                   basic_stats, events, community_csv, key_csv, community_df,
                   transaction_df_key>>

\* Cell a6f706a1: the three counts and the two printed percentages.
CancellationStats ==
    /\ pc = "stats"
    /\ total_transactions' = Len(transaction_df)
    /\ normal_transactions' = SumIsNull(transaction_df)
    /\ cancelled_transactions' = SumNotNa(transaction_df)
    /\ normal_pct' = Percent(normal_transactions', total_transactions')
    /\ cancelled_pct' = Percent(cancelled_transactions', total_transactions')
    /\ normal_printed' =
           FormatTwoDecimals(DoublePercent(normal_transactions', total_transactions'))
    /\ cancelled_printed' =
           FormatTwoDecimals(DoublePercent(cancelled_transactions', total_transactions'))
    /\ pc' = "scan"
    /\ UNCHANGED <<nb2_vars, id_vars, gen, csv, transaction_df, scan_vars, basic_stats, events>>

\* Cell 2fc5b467, `if cancelled_transactions > 0:` taken.
PatternScanBegin ==
    /\ pc = "scan"
    /\ cancelled_transactions > 0
    /\ cancelled_data' = NotNaRows(transaction_df)
    /\ patterns' = EmptyDict
    /\ scan_pos' = 0
    /\ pc' = "scan_loop"
    /\ UNCHANGED <<nb2_vars, id_vars, gen, csv, transaction_df, stats_vars, scan_log, basic_stats, events>>

\* Cell 2fc5b467, the condition false: the cell does nothing.
PatternScanSkip ==
    /\ pc = "scan"
    /\ ~(cancelled_transactions > 0)
    /\ pc' = "summary"
    /\ UNCHANGED <<nb2_vars, id_vars, gen, csv, transaction_df, stats_vars, scan_vars, basic_stats, events>>

ChangedKeys(before, after) ==
    {k \in DOMAIN after : DictGet(before, k) # after[k]}

\* One iteration of the loop over cancelled_data.head(20).
ScanIter ==
    /\ pc = "scan_loop"
    /\ scan_pos < Len(ScanHead(cancelled_data))
    /\ LET cancel_str == ScanHead(cancelled_data)[scan_pos + 1]
       IN  /\ patterns' = ScanBody(patterns, cancel_str)
           /\ scan_log' = Append(scan_log,
                  [cancel_str |-> cancel_str, keys |-> ChangedKeys(patterns, patterns')])
    /\ scan_pos' = scan_pos + 1
    /\ UNCHANGED <<nb2_vars, id_vars, gen, csv, pc, transaction_df, stats_vars, cancelled_data,
                   basic_stats, events>>

\* The loop is exhausted; the histogram is printed.
ScanPrint ==
    /\ pc = "scan_loop"
    /\ scan_pos = Len(ScanHead(cancelled_data))
    /\ pc' = "summary"
    /\ UNCHANGED <<nb2_vars, id_vars, gen, csv, transaction_df, stats_vars, scan_vars, basic_stats, events>>

\* Cell 0231c680: basic_stats.
BasicStats ==
    /\ pc = "summary"
    /\ LET match_rate == MatchRate(community_ids, transaction_ids)
       IN  IF match_rate = ZeroDivisionError
           THEN /\ errors' = Append(errors,
                       [cell |-> "0231c680", exc |-> "ZeroDivisionError"])
                /\ UNCHANGED basic_stats
           ELSE /\ basic_stats' =
                       [transaction_records |-> Len(transaction_df),
                        match_rate |-> match_rate,
                        cancellation_rate |->
                            Percent(cancelled_transactions, total_transactions)]
                /\ UNCHANGED errors
    /\ pc' = "parse"
    /\ UNCHANGED <<nb2_vars, gen, csv, transaction_df, stats_vars, scan_vars, events,
                   community_csv, key_csv, community_df, transaction_df_key,
                   community_ids, transaction_ids>>

\* The parser is applied to the next record.
ParseRecord ==
    /\ pc = "parse"
    /\ Len(events) < Len(transaction_df)
    /\ events' = Append(events, parse_cancellation(transaction_df[Len(events) + 1]))
    /\ UNCHANGED <<nb2_vars, id_vars, gen, csv, pc, transaction_df, stats_vars, scan_vars, basic_stats>>

ParseDone ==
    /\ pc = "parse"
    /\ Len(events) = Len(transaction_df)
    /\ pc' = "done"
    /\ UNCHANGED <<nb2_vars, id_vars, gen, csv, transaction_df, stats_vars, scan_vars, basic_stats, events>>

Next ==
    \/ LoadData
    \/ MatchRateCell
    \/ CancellationStats
    \/ PatternScanBegin
    \/ PatternScanSkip
    \/ ScanIter
    \/ ScanPrint
    \/ BasicStats
    \/ ParseRecord
    \/ ParseDone

Spec == Init /\ [][Next]_vars

\* Notebook 1 over the tables of null and non-null cells.
InitStats ==
    /\ gen \in StatTables
    /\ csv = [i \in 1..Len(gen) |-> JoinSubs(gen[i])]
    /\ community_csv = <<<<"A">>, <<"B">>>>
    /\ key_csv = [i \in 1..Len(gen) |-> <<"A">>]
    /\ pc = "load"
    /\ Nb1Names
    /\ Nb2NotRun

SpecStats == InitStats /\ [][Next]_vars

\* Notebook 1 over any two ID columns; each transaction is a dated
\* cancellation.
InitMatch ==
    /\ community_csv \in IdColumns
    /\ key_csv \in IdColumns
    /\ gen = [i \in 1..Len(key_csv) |-> Filler]
    /\ csv = [i \in 1..Len(gen) |-> JoinSubs(gen[i])]
    /\ pc = "load"
    /\ Nb1Names
    /\ Nb2NotRun

SpecMatch == InitMatch /\ [][Next]_vars

\* ----------------------------------------------- notebook 2: the load cell
\* Notebook 2 starts with a fresh kernel: its names are unbound and the
\* three paths hold whatever files there are.
InitLoad ==
    /\ gen = <<>>
    /\ csv = <<>>
    /\ community_csv = <<>>
    /\ key_csv = <<>>
    /\ pc = "not_run"
    /\ Nb1Names
    /\ files \in FileSystems
    /\ nb2_pc = "load_transaction_df"
    /\ Nb2Names

\* print(f"... {df.shape}")
Printed(text, shape) == [text |-> text, shape |-> shape]

\* transaction_df = pd.read_csv(community_path, encoding='utf-8') and its print.
LoadTransactionDf ==
    /\ nb2_pc = "load_transaction_df"
    /\ LET read == ReadCsvFile(files["community_path"])
       IN  IF read.raised = "none"
           THEN /\ nb2_transaction_df' = read.frame
                /\ nb2_out' = Append(nb2_out,
                       Printed("transaction data loaded", Shape(read.frame)))
                /\ nb2_pc' = "load_community_df"
                /\ UNCHANGED nb2_exc
           ELSE /\ nb2_exc' = read.raised
                /\ nb2_pc' = OuterExcept(read.raised)
                /\ UNCHANGED <<nb2_transaction_df, nb2_out>>
    /\ UNCHANGED <<nb1_vars, files, nb2_community_df, nb2_basic_stats>>

\* community_df = pd.read_csv(transaction_path, encoding='utf-8') and its print.
LoadCommunityDf ==
    /\ nb2_pc = "load_community_df"
    /\ LET read == ReadCsvFile(files["transaction_path"])
       IN  IF read.raised = "none"
           THEN /\ nb2_community_df' = read.frame
                /\ nb2_out' = Append(nb2_out,
                       Printed("community data loaded", Shape(read.frame)))
                /\ nb2_pc' = "load_basic_stats"
                /\ UNCHANGED nb2_exc
           ELSE /\ nb2_exc' = read.raised
                /\ nb2_pc' = OuterExcept(read.raised)
                /\ UNCHANGED <<nb2_community_df, nb2_out>>
    /\ UNCHANGED <<nb1_vars, files, nb2_transaction_df, nb2_basic_stats>>

\* The inner try: basic_stats = pd.read_csv(stats_path) and its print.
LoadBasicStats ==
    /\ nb2_pc = "load_basic_stats"
    /\ LET read == ReadCsvFile(files["stats_path"])
       IN  IF read.raised = "none"
           THEN /\ nb2_basic_stats' = read.frame
                /\ nb2_out' = Append(nb2_out, Printed("basic stats loaded", <<>>))
                /\ nb2_pc' = "end"
                /\ UNCHANGED nb2_exc
           ELSE /\ nb2_exc' = read.raised
                /\ nb2_pc' = InnerExcept(read.raised)
                /\ UNCHANGED <<nb2_basic_stats, nb2_out>>
    /\ UNCHANGED <<nb1_vars, files, nb2_transaction_df, nb2_community_df>>

\* The inner `except FileNotFoundError:` prints and sets basic_stats = None.
InnerExceptFileNotFound ==
    /\ nb2_pc = "inner_except_FileNotFoundError"
    /\ nb2_out' = Append(nb2_out, Printed("basic stats not found", <<>>))
    /\ nb2_basic_stats' = None
    /\ nb2_exc' = "none"
    /\ nb2_pc' = "end"
    /\ UNCHANGED <<nb1_vars, files, nb2_transaction_df, nb2_community_df>>

\* The outer `except FileNotFoundError as e:` prints two lines.
OuterExceptFileNotFound ==
    /\ nb2_pc = "except_FileNotFoundError"
    /\ nb2_out' = nb2_out \o <<Printed("file load failed", <<>>),
                                Printed("check the data folder", <<>>)>>
    /\ nb2_exc' = "none"
    /\ nb2_pc' = "end"
    /\ UNCHANGED <<nb1_vars, files, nb2_transaction_df, nb2_community_df,
                   nb2_basic_stats>>

\* The outer `except Exception as e:` prints one line.
OuterExceptException ==
    /\ nb2_pc = "except_Exception"
    /\ nb2_out' = Append(nb2_out, Printed("error while loading", <<>>))
    /\ nb2_exc' = "none"
    /\ nb2_pc' = "end"
    /\ UNCHANGED <<nb1_vars, files, nb2_transaction_df, nb2_community_df,
                   nb2_basic_stats>>

NextLoad ==
    \/ LoadTransactionDf
    \/ LoadCommunityDf
    \/ LoadBasicStats
    \/ InnerExceptFileNotFound
    \/ OuterExceptFileNotFound
    \/ OuterExceptException

SpecLoad == InitLoad /\ [][NextLoad]_vars

\* ------------------------------------------------------------- the claims
Counted == pc \notin {"load", "match", "stats"}

Summarised == pc \in {"parse", "done"}

\* The first sub-record a cell was written from.
First(i) == gen[i][1]

\* The ROC dates of the inputs that name a calendar day.
ValidRocDates ==
    {ymd \in RocYears \X Months \X Days :
        /\ ymd[2] \in 1..12
        /\ ymd[3] >= 1
        /\ ymd[3] <= DaysInMonth(ymd[1] + 1911, ymd[2])}

\* The token of the first sub-record is what the scan isolates: no blank is
\* left between it and a following ';'.
TokenIsolated(i) == First(i).pad # "trail" \/ Len(gen[i]) = 1

\* C1: an absent or empty cancellation text gives a non-cancelled event
\* (is_cancelled false, count 0, no date), and the statistics count the
\* record as a normal transaction, never as a cancelled one.
C1_AbsentIsNormal ==
    /\ \A i \in DOMAIN events :
          (csv[i] = <<>> \/ isnull(transaction_df[i]) \/ transaction_df[i] = <<>>)
              => /\ events[i].is_cancelled = FALSE
                 /\ events[i].cancellation_count = 0
                 /\ events[i].cancelled_date.present = FALSE
    /\ Counted =>
          /\ normal_transactions = Cardinality({i \in DOMAIN csv : csv[i] = <<>>})
          /\ cancelled_transactions + normal_transactions = Len(csv)
    /\ \A n \in DOMAIN scan_log : scan_log[n].cancel_str \notin {NULL, <<>>}

C1_Witness ==
    /\ pc = "done"
    /\ Len(csv) >= 2
    /\ \E i \in DOMAIN events :
          /\ csv[i] = <<>>
          /\ events[i].is_cancelled = FALSE
          /\ normal_transactions >= 1
          /\ cancelled_transactions >= 1

C3_CountIsMarkedSubRecords ==
    \A i \in DOMAIN events :
        events[i].cancellation_count =
            Cardinality({k \in DOMAIN gen[i] : gen[i][k].marked})

\* '全部解約1120315;全部解約1130101' gave 2.
C3_Witness ==
    /\ pc = "done"
    /\ \E i \in DOMAIN events :
          /\ Len(gen[i]) = 2
          /\ gen[i][1].marked /\ gen[i][2].marked
          /\ events[i].cancellation_count = 2
    /\ \E i \in DOMAIN events :
          /\ Len(gen[i]) = 2
          /\ gen[i][1].marked /\ ~gen[i][2].marked
          /\ events[i].cancellation_count = 1

\* C4: every event has is_cancelled = false => no date and count 0, and
\* count >= 1 => is_cancelled = true.
C4_EventInvariants ==
    \A i \in DOMAIN events :
        /\ events[i].is_cancelled = FALSE
              => /\ events[i].cancelled_date.present = FALSE
                 /\ events[i].cancellation_count = 0
        /\ events[i].cancellation_count >= 1 => events[i].is_cancelled = TRUE

C4_Witness ==
    /\ pc = "done"
    /\ \E i \in DOMAIN events :
          /\ events[i].is_cancelled = FALSE
          /\ events[i].cancellation_count = 0
          /\ events[i].cancelled_date.present = FALSE
    /\ \E i \in DOMAIN events :
          /\ events[i].cancellation_count >= 2
          /\ events[i].is_cancelled = TRUE

HasMarker(text) == Contains(text, Marker)

\* C5 as stated: a record is classified as cancelled exactly when its text
\* is present and contains the marker; a present text without the marker is
\* not counted as cancelled.
C5_CancelledIffMarker ==
    /\ \A i \in DOMAIN events :
          events[i].is_cancelled <=> (csv[i] # <<>> /\ HasMarker(csv[i]))
    /\ Counted =>
          cancelled_transactions =
              Cardinality({i \in DOMAIN csv : csv[i] # <<>> /\ HasMarker(csv[i])})

\* C5 as the notebook has it: a record is classified as cancelled exactly
\* when its text is present (non-null once loaded), marker or not; the marker
\* only decides whether the scan looks at the record's token.
C5_CancelledIffPresent ==
    /\ \A i \in DOMAIN events : events[i].is_cancelled <=> csv[i] # <<>>
    /\ Counted =>
          cancelled_transactions = Cardinality({i \in DOMAIN csv : csv[i] # <<>>})
    /\ \A n \in DOMAIN scan_log :
          ~HasMarker(scan_log[n].cancel_str) => scan_log[n].keys = {}

C5_Witness ==
    /\ pc = "done"
    /\ \E i \in DOMAIN events :
          /\ csv[i] # <<>>
          /\ ~HasMarker(csv[i])
          /\ events[i].is_cancelled = TRUE
          /\ cancelled_transactions >= 1
          /\ \E n \in DOMAIN scan_log :
                scan_log[n].cancel_str = csv[i] /\ scan_log[n].keys = {}

\* C6 as stated: over an empty table the statistics report total 0 and a
\* cancellation rate of 0, the division being guarded against a zero total.
C6_EmptyRateIsZero ==
    (Counted /\ Len(csv) = 0)
        => /\ total_transactions = 0
           /\ cancelled_pct = Finite(0, 1)
           /\ (Summarised => basic_stats.cancellation_rate = Finite(0, 1))

\* C7: over k >= 1 records of which c are cancelled the statistics report
\* total k, cancelled c and the rate c / k, as the percentage c / k * 100.
C7_RateIsCOverK ==
    LET k == Len(csv)
        c == Cardinality({i \in DOMAIN csv : csv[i] # <<>>})
    IN  (Counted /\ k >= 1)
            => /\ total_transactions = k
               /\ cancelled_transactions = c
               /\ normal_transactions = k - c
               /\ cancelled_pct.kind = "finite"
               /\ cancelled_pct.num * k = c * 100 * cancelled_pct.den
               /\ normal_pct.kind = "finite"
               /\ normal_pct.num * k = (k - c) * 100 * normal_pct.den
               /\ (Summarised => basic_stats.cancellation_rate = cancelled_pct)
               /\ (pc = "done" =>
                      c = Cardinality({i \in DOMAIN events : events[i].is_cancelled}))

\* 20 cancelled of 21 records: 95.238...%, not a whole percentage.
C7_Witness ==
    /\ pc = "done"
    /\ total_transactions = 21
    /\ cancelled_transactions = 20
    /\ basic_stats.cancellation_rate = [kind |-> "finite", num |-> 2000, den |-> 21]

\* The place of record i among the non-null cells, which the scan reads in order.
ScanIndex(i) == SumNotNa(SubSeq(transaction_df, 1, i))

\* The scan raised a bucket when it read record i.
BucketRecorded(i) ==
    /\ ScanIndex(i) \in DOMAIN scan_log
    /\ scan_log[ScanIndex(i)].keys # {}

\* The marker is followed by a token that names no calendar day.
Malformed(i) ==
    /\ First(i).marked
    /\ \A ymd \in ValidRocDates : First(i).token # FormatRoc(ymd[1], ymd[2], ymd[3])

\* Some cell or loop iteration of the run can be taken: the guards of Next.
CanStep ==
    \/ pc \in {"load", "match", "stats", "scan", "summary"}
    \/ pc = "scan_loop" /\ scan_pos <= Len(ScanHead(cancelled_data))
    \/ pc = "parse" /\ Len(events) <= Len(transaction_df)

\* C8 as stated: every text whose token after the marker is not a valid date
\* (non-numeric, wrong length, impossible month or day) gives is_cancelled =
\* true, no date and a recorded token-length bucket, and the run goes on.
C8_MalformedAlwaysBucketed ==
    /\ pc # "done" => CanStep
    /\ pc = "done" =>
          \A i \in DOMAIN csv :
              (Malformed(i) /\ First(i).token # <<>>)
                  => /\ events[i].is_cancelled = TRUE
                     /\ events[i].cancelled_date.present = FALSE
                     /\ BucketRecorded(i)

\* C8 as the notebook has it: nothing raises and every record is processed;
\* such a text gives is_cancelled = true and no date; its bucket is recorded
\* exactly when the record is among the first 20 non-null records and
\* something other than blanks is left once the marker is removed.
C8_MalformedDegrades ==
    /\ pc # "done" => CanStep
    /\ pc = "done" =>
          /\ Len(events) = Len(csv)
          /\ Len(scan_log) =
                (IF cancelled_transactions < 20 THEN cancelled_transactions ELSE 20)
          /\ \A i \in DOMAIN csv :
                Malformed(i)
                    => /\ events[i].is_cancelled = TRUE
                       /\ events[i].cancelled_date.present = FALSE
                       /\ BucketRecorded(i) <=>
                             /\ ScanIndex(i) <= 20
                             /\ (First(i).token # <<>> \/ Len(gen[i]) > 1)

\* '全部解約ABC' after another record and before one more: bucket 3 recorded,
\* and a 21st non-null record '全部解約ABC' that the scan never reads.
C8_Witness ==
    /\ pc = "done"
    /\ \E i \in DOMAIN csv :
          /\ Malformed(i)
          /\ First(i).token = <<"A", "B", "C">>
          /\ (  (/\ 1 < i /\ i < Len(csv)
                 /\ BucketRecorded(i)
                 /\ scan_log[ScanIndex(i)].keys = {3})
             \/ (ScanIndex(i) = 21 /\ ~BucketRecorded(i)) )

\* C9: the same text gives the same result wherever it stands in the table
\* and whatever was read before it: the same event, and the same bucket
\* raised by the scan, whose dict is the only state carried between records.
C9_SameTextSameResult ==
    /\ \A i, j \in DOMAIN events :
          transaction_df[i] = transaction_df[j] => events[i] = events[j]
    /\ \A m, n \in DOMAIN scan_log :
          scan_log[m].cancel_str = scan_log[n].cancel_str
              => scan_log[m].keys = scan_log[n].keys

\* The same text read twice with another bucket raised in between.
C9_Witness ==
    /\ pc = "done"
    /\ \E m, n \in DOMAIN scan_log :
          /\ m + 1 < n
          /\ scan_log[m].cancel_str = scan_log[n].cancel_str
          /\ scan_log[m].keys # {}
          /\ scan_log[m + 1].keys # {}
          /\ scan_log[m + 1].keys # scan_log[m].keys
          /\ events[1] = events[Len(events)]

\* The summary the notebook computes from a csv column.
SummaryOf(file) ==
    LET df == ReadCsv(file)
        cancelled == SumNotNa(df)
    IN  [total |-> Len(df),
         normal |-> SumIsNull(df),
         cancelled |-> cancelled,
         rate |-> Percent(cancelled, Len(df)),
         patterns |-> IF cancelled > 0
                      THEN ScanFold(EmptyDict, ScanHead(NotNaRows(df)))
                      ELSE EmptyDict]

\* The summary the run has computed.
RunSummary ==
    [total |-> total_transactions,
     normal |-> normal_transactions,
     cancelled |-> cancelled_transactions,
     rate |-> basic_stats.cancellation_rate,
     patterns |-> patterns]

\* The final merge of two partitions' counters.
MergeSummary(a, b) ==
    [total |-> a.total + b.total,
     normal |-> a.normal + b.normal,
     cancelled |-> a.cancelled + b.cancelled,
     rate |-> Percent(a.cancelled + b.cancelled, a.total + b.total),
     patterns |-> [k \in DOMAIN a.patterns \cup DOMAIN b.patterns |->
                      DictGet(a.patterns, k) + DictGet(b.patterns, k)]]

Swap(s, i, j) ==
    [k \in 1..Len(s) |-> IF k = i THEN s[j] ELSE IF k = j THEN s[i] ELSE s[k]]

\* The summaries of the table with two records exchanged, and of its splits
\* in two partitions, merged.
Rearranged ==
    {SummaryOf(Swap(csv, ij[1], ij[2])) :
        ij \in {p \in (DOMAIN csv) \X (DOMAIN csv) : csv[p[1]] # csv[p[2]]}}
      \cup {MergeSummary(SummaryOf(SubSeq(csv, 1, k)),
                         SummaryOf(SubSeq(csv, k + 1, Len(csv)))) :
               k \in 0..Len(csv)}

Counters(summary) ==
    [total |-> summary.total, normal |-> summary.normal,
     cancelled |-> summary.cancelled, rate |-> summary.rate]

\* C10 as stated: the summary (total, cancelled count, non-cancelled count,
\* rate and token-length histogram) is the same for every permutation of the
\* records and for every split into partitions whose summaries are merged.
C10_SummaryOrderFree ==
    pc = "done" => \A other \in Rearranged : other = RunSummary

\* C10 as the notebook has it: the counts and the rate are the same for
\* every permutation and every split; the histogram, which is read from the
\* first 20 non-null records, is the same when the table holds at most 20
\* non-null records.
C10_CountersOrderFree ==
    pc = "done" =>
        \A other \in Rearranged :
            /\ Counters(other) = Counters(RunSummary)
            /\ cancelled_transactions <= 20 => other.patterns = patterns

\* 20 non-null records in two buckets, rearranged with the same histogram.
C10_Witness ==
    /\ pc = "done"
    /\ cancelled_transactions = 20
    /\ Cardinality(DOMAIN patterns) = 2
    /\ Cardinality(Rearranged) = 1
    /\ \E i \in DOMAIN csv : csv[i] # csv[1]

\* The token of the first sub-record: what is left of the text once the
\* marker is removed and the ends are stripped, up to the first ';'.  A blank
\* after the token stays when a ';' follows it.
FirstToken(i) ==
    IF First(i).token = <<>> THEN <<>>
    ELSE First(i).token
           \o (IF First(i).pad = "trail" /\ Len(gen[i]) > 1 THEN <<" ">> ELSE <<>>)

\* Something other than blanks is left of the text once the marker is removed.
RemainderLeft(i) == Len(gen[i]) > 1 \/ \E k \in DOMAIN gen[i] : gen[i][k].token # <<>>

RECURSIVE DictTotal(_)
\* sum(patterns.values())
DictTotal(dict) ==
    IF DOMAIN dict = {} THEN 0
    ELSE LET k == CHOOSE key \in DOMAIN dict : TRUE
         IN  dict[k] + DictTotal([key \in DOMAIN dict \ {k} |-> dict[key]])

\* The date of a marker-bearing record depends on the first token alone and
\* is present only for a token of exactly 7 digits.
DateFromFirstToken ==
    /\ \A i \in DOMAIN events :
          (HasMarker(csv[i]) /\ events[i].cancelled_date.present)
              => /\ Len(FirstToken(i)) = 7
                 /\ \A n \in 1..7 : FirstToken(i)[n] \in DigitChars
    /\ \A i, j \in DOMAIN events :
          (HasMarker(csv[i]) /\ HasMarker(csv[j]) /\ FirstToken(i) = FirstToken(j))
              => events[i].cancelled_date = events[j].cancelled_date

\* C11 as stated: cancelled_date is derived from the token of the first
\* sub-record alone and is present only when that token is exactly 7 digits
\* long; for any other token length the date is absent and the length of the
\* first sub-record's token is recorded in the length histogram, one bucket
\* increment per record.
C11_OtherLengthAlwaysBucketed ==
    /\ DateFromFirstToken
    /\ pc = "done" =>
          \A i \in DOMAIN csv :
              (HasMarker(csv[i]) /\ Len(FirstToken(i)) \notin {0, 7})
                  => /\ events[i].cancelled_date.present = FALSE
                     /\ BucketRecorded(i)
                     /\ scan_log[ScanIndex(i)].keys = {Len(FirstToken(i))}

\* C11 as the notebook has it: the date comes from the first token alone and
\* is present only for a token of exactly 7 digits; the scan raises one
\* bucket by one, the length of the first token whether 7 or not, for each
\* marker-bearing record among the first 20 non-null records of which
\* something other than blanks is left without the marker, and none for any
\* other record.
C11_FirstTokenLengthBucketed ==
    /\ DateFromFirstToken
    /\ pc = "done" =>
          /\ \A i \in DOMAIN csv :
                HasMarker(csv[i])
                    => /\ Len(FirstToken(i)) # 7 => events[i].cancelled_date.present = FALSE
                       /\ BucketRecorded(i) <=> (ScanIndex(i) <= 20 /\ RemainderLeft(i))
                       /\ BucketRecorded(i) =>
                             scan_log[ScanIndex(i)].keys = {Len(FirstToken(i))}
          /\ \A n \in DOMAIN scan_log :
                scan_log[n].keys # {} => HasMarker(scan_log[n].cancel_str)
          /\ DictTotal(patterns) =
                Cardinality({n \in DOMAIN scan_log : scan_log[n].keys # {}})

\* 19 records with a date, then '全部解約ABC' as the 20th non-null record
\* (bucket 3 raised once, no date), then a 21st that the scan never reads.
C11_Witness ==
    /\ pc = "done"
    /\ \E i \in DOMAIN csv :
          /\ First(i).marked
          /\ FirstToken(i) = <<"A", "B", "C">>
          /\ events[i].cancelled_date.present = FALSE
          /\ ScanIndex(i) = 20
          /\ scan_log[20].keys = {3}
          /\ patterns[3] = 1
    /\ \E i \in DOMAIN csv :
          /\ events[i].cancelled_date.present
          /\ BucketRecorded(i)
          /\ scan_log[ScanIndex(i)].keys = {7}
    /\ \E i \in DOMAIN csv :
          HasMarker(csv[i]) /\ ScanIndex(i) = 21 /\ ~BucketRecorded(i)

\* C12 as stated: when notebook 2's load cell has run, transaction_df holds
\* the contents of the per-unit transaction file (transaction_path) and
\* community_df the contents of the pre-sale community file
\* (community_path), as the comments and the printed lines say.
C12_FramesHoldTheirFiles ==
    (nb2_transaction_df # Unbound /\ nb2_community_df # Unbound)
        => /\ nb2_transaction_df = ReadCsvFile(files["transaction_path"]).frame
           /\ nb2_community_df = ReadCsvFile(files["community_path"]).frame

\* The counts partition the records and are not negative.
CountsPartition ==
    Counted =>
        /\ total_transactions = Len(csv)
        /\ normal_transactions = Cardinality({i \in DOMAIN csv : csv[i] = <<>>})
        /\ cancelled_transactions = Cardinality({i \in DOMAIN csv : csv[i] # <<>>})
        /\ normal_transactions + cancelled_transactions = total_transactions
        /\ normal_transactions >= 0
        /\ cancelled_transactions >= 0

\* C13 as stated: for every table normal count + cancelled count = total
\* count, both counts are >= 0, and for a non-empty table the two reported
\* percentages sum to 100.
C13_ReportedSumIs100 ==
    /\ CountsPartition
    /\ (Counted /\ Len(csv) >= 1)
          => /\ normal_printed.text = "finite"
             /\ cancelled_printed.text = "finite"
             /\ normal_printed.hundredths + cancelled_printed.hundredths = 10000

\* C13 as the notebook has it: the counts partition the records and are
\* >= 0; for a non-empty table the two percentages sum to 100 as exact
\* quotients, and as reported, each a double printed with two decimals,
\* they sum to 100.00 give or take one hundredth.
C13_ReportedSumNear100 ==
    /\ CountsPartition
    /\ (Counted /\ Len(csv) >= 1)
          => /\ normal_pct.kind = "finite" /\ cancelled_pct.kind = "finite"
             /\ normal_pct.num * cancelled_pct.den + cancelled_pct.num * normal_pct.den
                   = 100 * normal_pct.den * cancelled_pct.den
             /\ normal_printed.text = "finite"
             /\ cancelled_printed.text = "finite"
             /\ normal_printed.hundredths + cancelled_printed.hundredths
                   \in {9999, 10000, 10001}

\* 23 normal and 137 cancelled of 160 records: 14.37% and 85.62%; the
\* quotients are 14.375 and 85.625.
C13_Witness ==
    /\ pc = "done"
    /\ total_transactions = 160
    /\ normal_transactions = 23
    /\ cancelled_transactions = 137
    /\ normal_pct = [kind |-> "finite", num |-> 115, den |-> 8]
    /\ normal_printed.hundredths = 1437
    /\ cancelled_printed.hundredths = 8562

\* C14 as stated: the match rate |community_ids & transaction_ids| /
\* max(|community_ids|, |transaction_ids|) * 100 over the non-null ID sets is
\* defined and lies in [0, 100] for every pair of ID sets, both sets empty
\* included, and is 100 exactly when the two sets are equal and non-empty.
C14_MatchRateDefined ==
    /\ errors = <<>>
    /\ Summarised =>
          LET rate == basic_stats.match_rate
          IN  /\ rate.kind = "finite"
              /\ 0 <= rate.num /\ rate.num <= 100 * rate.den
              /\ rate = Finite(100, 1)
                    <=> (community_ids = transaction_ids /\ community_ids # {})

\* Short of the case of two empty sets, in which both cells raise, the rate
\* is as C14 says.
MatchRateUnlessBothEmpty ==
    /\ errors # <<>> => (community_ids = {} /\ transaction_ids = {})
    /\ (Summarised /\ errors = <<>>) =>
          LET rate == basic_stats.match_rate
          IN  /\ rate.kind = "finite"
              /\ 0 <= rate.num /\ rate.num <= 100 * rate.den
              /\ rate = Finite(100, 1)
                    <=> (community_ids = transaction_ids /\ community_ids # {})

Readable(path) == ReadCsvFile(files[path]).raised = "none"

\* The lines the outer handlers print.
OuterLines == {"file load failed", "check the data folder", "error while loading"}

OuterHandlerEntered ==
    \/ nb2_pc \in {"except_FileNotFoundError", "except_Exception"}
    \/ \E n \in DOMAIN nb2_out : nb2_out[n].text \in OuterLines

\* C15: in notebook 2's load cell, when both data files load and only the
\* stats file is missing, basic_stats is set to None, transaction_df and
\* community_df stay bound and the outer handlers are not entered; when a data
\* file fails to load, a message is printed, no exception leaves the cell
\* and basic_stats is never assigned.
C15_MissingStatsHandledLocally ==
    /\ (Readable("community_path") /\ Readable("transaction_path")
           /\ ~files["stats_path"].exists)
          => /\ ~OuterHandlerEntered
             /\ nb2_pc # "raised"
             /\ nb2_pc = "end"
                   => /\ nb2_basic_stats = None
                      /\ nb2_transaction_df # Unbound
                      /\ nb2_community_df # Unbound
                      /\ nb2_exc = "none"
                      /\ nb2_out[Len(nb2_out)].text = "basic stats not found"
    /\ ~(Readable("community_path") /\ Readable("transaction_path"))
          => /\ nb2_pc # "raised"
             /\ nb2_basic_stats = Unbound
             /\ nb2_pc \notin {"load_basic_stats", "inner_except_FileNotFoundError"}
             /\ nb2_pc = "end"
                   => /\ nb2_exc = "none"
                      /\ nb2_out # <<>>
                      /\ nb2_out[Len(nb2_out)].text \in OuterLines

\* Both data files loaded, the stats file missing: basic_stats is None after
\* three printed lines.
C15_Witness ==
    /\ nb2_pc = "end"
    /\ ~files["stats_path"].exists
    /\ nb2_basic_stats = None
    /\ nb2_transaction_df # Unbound
    /\ nb2_community_df # Unbound
    /\ Len(nb2_out) = 3
    /\ Len(nb2_transaction_df.rows) # Len(nb2_community_df.rows)

====
